---- MODULE Spec2Model ----
(***************************************************************************)
(* RobotPuzzle backend: the four request handlers under                    *)
(* src/aws/lambda-functions (board-configurations.py, rounds.py,           *)
(* scores.py, user-profiles.py) as state machines over their tables.       *)
(*                                                                         *)
(* A table is a function from the keys that are stored to the stored item. *)
(* A handler invocation runs in one of NumProcs slots; every store call    *)
(* (get_item, query, scan, put_item, delete_item) is one atomic step, and  *)
(* the code between two store calls runs with the later or earlier of the  *)
(* two.  A handler that makes two store calls is therefore two actions,    *)
(* and other invocations may run between them.                             *)
(*                                                                         *)
(* Time stamps are the clock value `now` (milliseconds); isoformat() and   *)
(* "round_<ms>" are injective renderings of it.                            *)
(***************************************************************************)
EXTENDS Integers, Sequences, FiniteSets, TLC

VARIABLES
    configs,    \* board-configurations table: <<userId, configId>> -> item
    rounds,     \* rounds table: roundId -> item
    scores,     \* scores table: <<roundId, userId>> -> item
    profiles,   \* profiles table: userId -> item
    now,        \* the clock, in milliseconds
    pc,         \* per slot: "idle", or the store call the invocation is about to make
    loc,        \* per slot: the local variables of the invocation in flight
    resp,       \* per slot: the response of the last invocation that returned
    acc,        \* per slot: the store calls of the current / last invocation, in order
    submitted,  \* history: per score key, the best and the number of improving submissions
    accepted,   \* history: per score key, the lowest moves answered 201 and the number of puts
    cfgLog,     \* history: the configuration creates that returned 201
    lastDelete, \* history: the last configuration delete that returned 200, if it
                \* removed its owner's highest id
    roundLog,   \* history: the round creates that returned 201
    nreq        \* history: the number of invocations started

vars == <<configs, rounds, scores, profiles, now, pc, loc, resp, acc,
          submitted, accepted, cfgLog, lastDelete, roundLog, nreq>>

----------------------------------------------------------------------------
(* Bounds of the model *)

MaxClock == 1
MaxMoves == 1
MaxReqs == 3       \* invocations in a run
MaxCfgReqs == 5    \* invocations in a run of the configurations handler alone
MaxBoardReqs == 4  \* invocations in a run of submissions and leaderboard reads
MaxAppReqs == 2    \* invocations in a run of the four handlers together
MaxIdReqs == 6     \* invocations in a run of creates and deletes by one owner

\* Two slots: an invocation and one that overlaps it.
Procs == {1, 2}

None == "None"
Nil == [nil |-> TRUE]
EmptyBody == [raw |-> ""]
NoDelete == [userId |-> None, configId |-> None, highest |-> FALSE, creates |-> 0]

\* claims.get('sub') and claims.get('email') are None when the claim is
\* absent; the two claims are independent inputs of every handler.
Users == {"u1", "u2"}

Min(a, b) == IF a <= b THEN a ELSE b

----------------------------------------------------------------------------
(* The key-value store *)

get_item(table, key) ==
    IF key \in DOMAIN table THEN [Item |-> table[key]] ELSE Nil

put_item(table, key, item) == (key :> item) @@ table

delete_item(table, key) == [k \in DOMAIN table \ {key} |-> table[k]]

----------------------------------------------------------------------------
(* Slots *)

NoResp == [statusCode |-> 0, headers |-> [origin |-> "", methods |-> ""], body |-> EmptyBody]

\* The invocation in slot p returns r, having made the store calls a.
Return(p, r, a) ==
    /\ resp' = [resp EXCEPT ![p] = r]
    /\ acc' = [acc EXCEPT ![p] = a]
    /\ pc' = [pc EXCEPT ![p] = "idle"]
    /\ loc' = [loc EXCEPT ![p] = Nil]

\* The invocation in slot p has made the store calls a and is about to make
\* the store call `at`, with local variables l.
Suspend(p, at, l, a) ==
    /\ pc' = [pc EXCEPT ![p] = at]
    /\ loc' = [loc EXCEPT ![p] = l]
    /\ acc' = [acc EXCEPT ![p] = a]
    /\ resp' = [resp EXCEPT ![p] = NoResp]

Tick ==
    /\ now < MaxClock
    /\ now' = now + 1
    /\ UNCHANGED <<configs, rounds, scores, profiles, pc, loc, resp, acc,
                   submitted, accepted, cfgLog, lastDelete, roundLog, nreq>>

Init ==
    /\ configs = <<>>
    /\ rounds = <<>>
    /\ scores = <<>>
    /\ profiles = <<>>
    /\ now = 0
    /\ pc = [p \in Procs |-> "idle"]
    /\ loc = [p \in Procs |-> Nil]
    /\ resp = [p \in Procs |-> NoResp]
    /\ acc = [p \in Procs |-> <<>>]
    /\ submitted = <<>>
    /\ accepted = <<>>
    /\ cfgLog = <<>>
    /\ lastDelete = NoDelete
    /\ roundLog = <<>>
    /\ nreq = 0

----------------------------------------------------------------------------
(* scores.py *)

Moves == (0 - 1)..MaxMoves
MoveSeqs == {"seqA", "seqB"}

ScoresHeaders == [origin |-> "https://robots.mlusby.dev", methods |-> "GET,POST,OPTIONS"]

scores_success_response(data, status_code) ==
    [statusCode |-> status_code, headers |-> ScoresHeaders, body |-> data]

scores_error_response(status_code, message) ==
    [statusCode |-> status_code, headers |-> ScoresHeaders, body |-> [error |-> message]]

scores_cors_response ==
    [statusCode |-> 200, headers |-> ScoresHeaders, body |-> EmptyBody]

\* event: claims are the authorizer's claims, roundId is
\* pathParameters.roundId (None when absent), raw tells whether the body
\* parses ("json": to data), makes json.loads raise ("invalid") or is None
\* ("null").
ScoresEvent(method, sub, email, round_id, raw, data) ==
    [httpMethod |-> method, claims |-> [sub |-> sub, email |-> email],
     roundId |-> round_id, raw |-> raw, data |-> data]

\* Submissions with moves and moveSequence: by u1 with the roundId in the
\* body, by u2 with the roundId in the path.
ScoresSubmissions ==
    {ScoresEvent("POST", "u1", "e1", None, "json", d) :
        d \in [roundId : {"round_1"}, moves : Moves, moveSequence : MoveSeqs]}
    \cup {ScoresEvent("POST", "u2", "e2", "round_1", "json", d) :
        d \in [moves : Moves, moveSequence : {"seqA"}]}

ScoresEvents ==
    ScoresSubmissions
    \* roundId in the path and in the body; a field or the whole body missing
    \cup {ScoresEvent("POST", "u1", "e1", "round_1", "json", d) :
        d \in {[roundId |-> "round_2", moves |-> 0, moveSequence |-> "seqB"],
               [moveSequence |-> "seqA"],
               [moves |-> 0]}}
    \cup {ScoresEvent("POST", "u1", "e1", None, raw, [moves |-> 0, moveSequence |-> "seqA"]) :
        raw \in {"json", "invalid", "null"}}
    \* reads, other methods, no identity
    \cup {ScoresEvent(m, "u1", "e1", r, "json", Nil) :
        m \in {"GET", "OPTIONS", "PUT"}, r \in {"round_1", None}}
    \cup {ScoresEvent(m, None, None, "round_1", "json",
                      [moves |-> 0, moveSequence |-> "seqA"]) :
        m \in {"GET", "POST", "OPTIONS", "PUT"}}

ScoreItemsOf(pred(_)) == {scores[k] : k \in {k \in DOMAIN scores : pred(k)}}

\* Every ordering of a set of score items by moves ascending (the order of
\* items with equal moves is the store's).
RECURSIVE SortedByMoves(_)
SortedByMoves(S) ==
    IF S = {} THEN {<<>>}
    ELSE UNION {{<<i>> \o rest : rest \in SortedByMoves(S \ {i})} :
                    i \in {j \in S : \A k \in S : j.moves <= k.moves}}

RECURSIVE AnyOrder(_)
AnyOrder(S) ==
    IF S = {} THEN {<<>>}
    ELSE UNION {{<<i>> \o rest : rest \in AnyOrder(S \ {i})} : i \in S}

QueryLeaderboardAllRounds(table, round_id) == {table[k] : k \in DOMAIN table}

\* KeyConditionExpression 'roundId = :roundId' on the leaderboard index.
QueryLeaderboard(table, round_id) ==
    {table[k] : k \in {k \in DOMAIN table : k[1] = round_id}}

get_leaderboard(p, round_id) ==
    /\ \E items \in SortedByMoves(QueryLeaderboard(scores, round_id)) :
          Return(p, scores_success_response([Items |-> items], 200), <<"query">>)
    /\ UNCHANGED <<scores, submitted, accepted>>

get_user_scores(p, user_id) ==
    /\ \E items \in AnyOrder(ScoreItemsOf(LAMBDA k : k[2] = user_id)) :
          Return(p, scores_success_response([Items |-> items], 200), <<"scan">>)
    /\ UNCHANGED <<scores, submitted, accepted>>

\* History of the submissions that carried moves and moveSequence: the lowest
\* moves submitted for the key and the number of submissions after the first
\* that were lower than every earlier one.
RecordSubmission(key, moves) ==
    submitted' =
        IF key \in DOMAIN submitted
        THEN [submitted EXCEPT ![key] =
                 [min |-> Min(moves, @.min),
                  imp |-> IF moves < @.min THEN @.imp + 1 ELSE @.imp]]
        ELSE (key :> [min |-> moves, imp |-> 0]) @@ submitted

NotImprovedStrict(moves, existing_moves) == moves > existing_moves

\* if moves >= existing_score['moves']: the submission is not written.
NotImproved(moves, existing_moves) == moves >= existing_moves

\* submit_score up to and including its get_item, and the decision on the item read.
submit_score(p, user_id, round_id, score_data, user_email) ==
    IF "moves" \notin DOMAIN score_data THEN
        /\ Return(p, scores_error_response(400, "moves field is required"), <<>>)
        /\ UNCHANGED <<scores, submitted, accepted>>
    ELSE IF "moveSequence" \notin DOMAIN score_data THEN
        /\ Return(p, scores_error_response(400, "moveSequence field is required"), <<>>)
        /\ UNCHANGED <<scores, submitted, accepted>>
    ELSE
        LET moves == score_data.moves
            move_sequence == score_data.moveSequence
            key == <<round_id, user_id>>
            existing_response == get_item(scores, key)
            found == "Item" \in DOMAIN existing_response
            attempt_count == IF found THEN existing_response.Item.attemptCount + 1 ELSE 1
        IN  /\ RecordSubmission(key, moves)
            /\ UNCHANGED <<scores, accepted>>
            /\ IF found /\ NotImproved(moves, existing_response.Item.moves) THEN
                   Return(p, scores_success_response(
                                 [message |-> "Score not improved",
                                  currentBest |-> existing_response.Item.moves,
                                  submitted |-> moves,
                                  personalBest |-> FALSE], 200), <<"get_item">>)
               ELSE
                   Suspend(p, "submit_score_put",
                           [roundId |-> round_id,
                            userId |-> user_id,
                            moves |-> moves,
                            moveSequence |-> move_sequence,
                            completedAt |-> now,
                            attemptCount |-> attempt_count,
                            userEmail |-> user_email], <<"get_item">>)

ConditionalPutScore(table, key, item) ==
    IF key \in DOMAIN table /\ table[key].moves <= item.moves
    THEN table ELSE put_item(table, key, item)

\* scores_table.put_item(Item=score_item): unconditional.
PutScore(table, key, item) == put_item(table, key, item)

\* submit_score from its put_item to its return.
submit_score_put(p) ==
    /\ pc[p] = "submit_score_put"
    /\ LET score_item == loc[p]
           key == <<score_item.roundId, score_item.userId>>
       IN  /\ scores' = PutScore(scores, key, score_item)
           /\ accepted' =
                  IF key \in DOMAIN accepted
                  THEN [accepted EXCEPT ![key] =
                           [min |-> Min(score_item.moves, @.min), n |-> @.n + 1]]
                  ELSE (key :> [min |-> score_item.moves, n |-> 1]) @@ accepted
           /\ Return(p, scores_success_response(
                            [message |-> "Score submitted successfully",
                             moves |-> score_item.moves,
                             personalBest |-> TRUE,
                             attemptCount |-> score_item.attemptCount], 201),
                     Append(acc[p], "put_item"))
    /\ UNCHANGED <<configs, rounds, profiles, now, submitted, cfgLog, lastDelete, roundLog, nreq>>

ScoresAuthorized(user_id) == user_id # None


scores_lambda_handler(p, event) ==
    /\ pc[p] = "idle"
    /\ nreq' = nreq + 1
    /\ UNCHANGED <<configs, rounds, profiles, now, cfgLog, lastDelete, roundLog>>
    /\ LET http_method == event.httpMethod
           user_id == event.claims.sub
           user_email == event.claims.email
           path_round == event.roundId
       IN
       IF http_method = "OPTIONS" THEN
           /\ Return(p, scores_cors_response, <<>>)
           /\ UNCHANGED <<scores, submitted, accepted>>
       ELSE IF ~ScoresAuthorized(user_id) THEN
           /\ Return(p, scores_error_response(401, "Unauthorized: No user ID found"), <<>>)
           /\ UNCHANGED <<scores, submitted, accepted>>
       ELSE IF http_method = "GET" THEN
           IF path_round # None
           THEN get_leaderboard(p, path_round)
           ELSE get_user_scores(p, user_id)
       ELSE IF http_method = "POST" THEN
           IF event.raw = "invalid" THEN
               /\ Return(p, scores_error_response(400, "Invalid JSON in request body"), <<>>)
               /\ UNCHANGED <<scores, submitted, accepted>>
           ELSE IF event.raw = "null" THEN
               \* score_data is None: score_data.get / 'moves' in score_data raise
               /\ Return(p, scores_error_response(500, "Internal server error"), <<>>)
               /\ UNCHANGED <<scores, submitted, accepted>>
           ELSE
               LET score_data == event.data
                   round_id == IF path_round # None THEN path_round
                               ELSE IF "roundId" \in DOMAIN score_data
                                    THEN score_data.roundId ELSE None
               IN  IF round_id = None THEN
                       /\ Return(p, scores_error_response(400,
                              "roundId is required for score submission (in path or body)"), <<>>)
                       /\ UNCHANGED <<scores, submitted, accepted>>
                   ELSE submit_score(p, user_id, round_id, score_data, user_email)
       ELSE
           /\ Return(p, scores_error_response(405, "Method not allowed"), <<>>)
           /\ UNCHANGED <<scores, submitted, accepted>>

\* Submissions to the scores handler, overlapping freely.
ScoresNext ==
    \/ Tick
    \/ \E p \in Procs, event \in ScoresSubmissions :
          nreq < MaxReqs /\ scores_lambda_handler(p, event)
    \/ \E p \in Procs : submit_score_put(p)

ScoresSpec == Init /\ [][ScoresNext]_vars

\* Invocations of the scores handler, of every kind, that do not overlap: one slot.
ScoresSeqNext ==
    \/ Tick
    \/ \E event \in ScoresEvents :
          nreq < MaxReqs /\ scores_lambda_handler(1, event)
    \/ submit_score_put(1)

ScoresSeqSpec == Init /\ [][ScoresSeqNext]_vars

\* Submissions by two users to two rounds and reads of the two leaderboards,
\* one slot.
LeaderboardEvents ==
    {ScoresEvent("POST", u, None, "round_1", "json", [moves |-> m, moveSequence |-> "seqA"]) :
        u \in Users, m \in Moves}
    \cup {ScoresEvent("POST", "u1", "e1", "round_2", "json",
                      [moves |-> 0, moveSequence |-> "seqA"])}
    \cup {ScoresEvent("GET", "u1", "e1", r, "json", Nil) : r \in {"round_1", "round_2"}}

LeaderboardNext ==
    \/ Tick
    \/ \E event \in LeaderboardEvents :
          nreq < MaxBoardReqs /\ scores_lambda_handler(1, event)
    \/ submit_score_put(1)

LeaderboardSpec == Init /\ [][LeaderboardNext]_vars

----------------------------------------------------------------------------
(* rounds.py *)

\* A path is the sequence of its segments: "/rounds/config/7" is
\* <<"rounds", "config", "7">>, so path.split('/')[k] is path[k] for k >= 1
\* and len(path.split('/')) is Len(path) + 1.
Last(path) == path[Len(path)]

\* '/config/' in path
HasConfigSegment(path) == \E i \in 1..(Len(path) - 1) : path[i] = "config"

\* path.endswith('/' + name)
EndsWith(path, name) == Len(path) >= 1 /\ Last(path) = name

RoundsHeaders ==
    [origin |-> "http://robot-puzzle-game-prod-website.s3-website-us-east-1.amazonaws.com",
     methods |-> "GET,POST,DELETE,OPTIONS"]

\* 'body': json.dumps(body) if body else '' -- an empty list or dict gives ''.
rounds_create_response(status_code, body) ==
    [statusCode |-> status_code, headers |-> RoundsHeaders, body |-> body]

\* A scan of the rounds table, answered 200: the stored rounds (in the
\* store's order, left open here), '' when there is none.
ScanRounds(p) ==
    /\ Return(p, rounds_create_response(200,
                    IF DOMAIN rounds = {} THEN EmptyBody
                    ELSE [Items |-> {rounds[k] : k \in DOMAIN rounds}]), <<"scan">>)
    /\ UNCHANGED <<rounds, now, roundLog>>

SolvedRoundsOnly(p, event, user_id, user_email) ==
    /\ Return(p, rounds_create_response(200,
                    [Items |-> {rounds[k] : k \in {k \in DOMAIN rounds :
                                    \E s \in DOMAIN scores : s[1] = k}}]), <<"scan">>)
    /\ UNCHANGED <<rounds, now, roundLog>>

handle_get_solved_rounds(p, event, user_id, user_email) == ScanRounds(p)

handle_get_baseline_rounds(p, event, user_id, user_email) == ScanRounds(p)

handle_get_user_submitted_rounds(p, event, user_id, user_email) == ScanRounds(p)

handle_get_rounds(p, event, user_id, user_email) == ScanRounds(p)

\* Both read rounds_table.get_item(Key={'roundId': round_id}) and answer the item or 404.
GetRound(p, round_id) ==
    /\ LET response == get_item(rounds, round_id)
       IN  IF "Item" \notin DOMAIN response
           THEN Return(p, rounds_create_response(404, [error |-> "Round not found"]),
                       <<"get_item">>)
           ELSE Return(p, rounds_create_response(200, response.Item), <<"get_item">>)
    /\ UNCHANGED <<rounds, now, roundLog>>

handle_get_specific_round(p, event, user_id, user_email) == GetRound(p, Last(event.path))

handle_get_round_config(p, event, user_id, user_email) ==
    IF Len(event.path) + 1 < 4 THEN
        /\ Return(p, rounds_create_response(400, [error |-> "Round ID is required"]), <<>>)
        /\ UNCHANGED <<rounds, now, roundLog>>
    ELSE GetRound(p, event.path[3])

\* round_id = f"round_{int(datetime.datetime.now().timestamp() * 1000)}"
RoundIdOf(ms) == "round_" \o ToString(ms)

PutRoundIfAbsent(table, key, item) ==
    IF key \in DOMAIN table THEN table ELSE put_item(table, key, item)

\* rounds_table.put_item(Item=round_item): unconditional.
PutRound(table, key, item) == put_item(table, key, item)

\* The optional fields a create copies from the body.
OptionalFields(body) == [f \in {"walls", "targets"} \cap DOMAIN body |-> body[f]]

\* The required fields the body lacks.
MissingFields(body) == {"initialRobotPositions", "targetPositions"} \ DOMAIN body

\* The tail shared by both creates: the clock is read for the id and again
\* for createdAt, the item is put and answered 201.
CreateRound(p, config_id, body, user_id, user_email) ==
    \E created \in now..MaxClock :
        LET round_id == RoundIdOf(now)
            round_item ==
                OptionalFields(body) @@
                [roundId |-> round_id,
                 configId |-> config_id,
                 initialRobotPositions |-> body.initialRobotPositions,
                 targetPositions |-> body.targetPositions,
                 authorEmail |-> user_email,
                 authorId |-> user_id,
                 createdAt |-> created]
        IN  /\ rounds' = PutRound(rounds, round_id, round_item)
            /\ now' = created
            /\ roundLog' = Append(roundLog, [ms |-> now, roundId |-> round_id,
                                             authorId |-> user_id, authorEmail |-> user_email])
            /\ Return(p, rounds_create_response(201, round_item), <<"put_item">>)

NoBodyAccepted(raw_body) == FALSE

\* if not raw_body: the event has no body (None or '').
NoBody(raw_body) == raw_body = "null"

handle_create_round(p, event, user_id, user_email) ==
    IF NoBody(event.raw) THEN
        /\ Return(p, rounds_create_response(400, [error |-> "Request body is required"]), <<>>)
        /\ UNCHANGED <<rounds, now, roundLog>>
    ELSE IF event.raw \in {"invalid", "null"} THEN
        \* json.loads(raw_body) raises
        /\ Return(p, rounds_create_response(500, [error |-> "Failed to create round"]), <<>>)
        /\ UNCHANGED <<rounds, now, roundLog>>
    ELSE
        LET body == IF HasConfigSegment(event.path)
                    THEN [configId |-> event.path[3]] @@ event.data
                    ELSE event.data
        IN  IF MissingFields(body) # {} THEN
                /\ Return(p, rounds_create_response(400,
                       [error |-> "Missing required fields", fields |-> MissingFields(body)]), <<>>)
                /\ UNCHANGED <<rounds, now, roundLog>>
            ELSE CreateRound(p, IF "configId" \in DOMAIN body THEN body.configId ELSE "",
                             body, user_id, user_email)

handle_create_round_with_config_id(p, event, user_id, user_email) ==
    LET config_id == event.path[3]
    IN  IF NoBody(event.raw) THEN
            /\ Return(p, rounds_create_response(400, [error |-> "Request body is required"]), <<>>)
            /\ UNCHANGED <<rounds, now, roundLog>>
        ELSE IF event.raw \in {"invalid", "null"} THEN
            \* json.loads(raw_body) raises
            /\ Return(p, rounds_create_response(500, [error |-> "Failed to create round"]), <<>>)
            /\ UNCHANGED <<rounds, now, roundLog>>
        ELSE
            LET body == [configId |-> config_id] @@ event.data
            IN  IF MissingFields(body) # {} THEN
                    /\ Return(p, rounds_create_response(400,
                           [error |-> "Missing required fields", fields |-> MissingFields(body)]), <<>>)
                    /\ UNCHANGED <<rounds, now, roundLog>>
                ELSE CreateRound(p, config_id, body, user_id, user_email)

\* if round_item.get('authorEmail') != user_email: 403
IsAuthor(round_item, user_id, user_email) == round_item.authorEmail = user_email

\* handle_delete_round up to and including its get_item and the ownership check.
handle_delete_round(p, event, user_id, user_email) ==
    /\ UNCHANGED <<rounds, now, roundLog>>
    /\ IF Len(event.path) + 1 < 3 THEN
           Return(p, rounds_create_response(400, [error |-> "Round ID is required"]), <<>>)
       ELSE
           LET round_id == event.path[2]
               response == get_item(rounds, round_id)
           IN  IF "Item" \notin DOMAIN response THEN
                   Return(p, rounds_create_response(404, [error |-> "Round not found"]),
                          <<"get_item">>)
               ELSE IF ~IsAuthor(response.Item, user_id, user_email) THEN
                   Return(p, rounds_create_response(403,
                              [error |-> "You can only delete your own rounds"]),
                          <<"get_item">>)
               ELSE
                   Suspend(p, "handle_delete_round_delete", [roundId |-> round_id],
                           <<"get_item">>)

handle_delete_round_cascade(p) ==
    /\ pc[p] = "handle_delete_round_delete"
    /\ rounds' = delete_item(rounds, loc[p].roundId)
    /\ scores' = [k \in {k \in DOMAIN scores : k[1] # loc[p].roundId} |-> scores[k]]
    /\ Return(p, rounds_create_response(200, [message |-> "Round deleted successfully"]),
              Append(acc[p], "delete_item"))
    /\ UNCHANGED <<configs, profiles, now, submitted, accepted, cfgLog, lastDelete, roundLog, nreq>>

\* handle_delete_round from its delete_item to its return.
handle_delete_round_delete(p) ==
    /\ pc[p] = "handle_delete_round_delete"
    /\ rounds' = delete_item(rounds, loc[p].roundId)
    /\ Return(p, rounds_create_response(200, [message |-> "Round deleted successfully"]),
              Append(acc[p], "delete_item"))
    /\ UNCHANGED <<configs, scores, profiles, now, submitted, accepted, cfgLog, lastDelete, roundLog, nreq>>

rounds_lambda_handler(p, event) ==
    /\ pc[p] = "idle"
    /\ nreq' = nreq + 1
    /\ UNCHANGED <<configs, scores, profiles, submitted, accepted, cfgLog, lastDelete>>
    /\ LET http_method == event.httpMethod
           path == event.path
           user_id == event.claims.sub
           user_email == event.claims.email
       IN
       IF http_method = "GET" THEN
           IF HasConfigSegment(path) THEN
               handle_get_round_config(p, event, user_id, user_email)
           ELSE IF EndsWith(path, "solved") THEN
               handle_get_solved_rounds(p, event, user_id, user_email)
           ELSE IF EndsWith(path, "baseline") THEN
               handle_get_baseline_rounds(p, event, user_id, user_email)
           ELSE IF EndsWith(path, "user-submitted") THEN
               handle_get_user_submitted_rounds(p, event, user_id, user_email)
           ELSE IF EndsWith(path, "user-completed") THEN
               handle_get_user_submitted_rounds(p, event, user_id, user_email)
           ELSE IF path[1] = "rounds" /\ Len(path) + 1 > 2 /\ ~EndsWith(path, "config") THEN
               handle_get_specific_round(p, event, user_id, user_email)
           ELSE
               handle_get_rounds(p, event, user_id, user_email)
       ELSE IF http_method = "POST" THEN
           IF HasConfigSegment(path)
           THEN handle_create_round_with_config_id(p, event, user_id, user_email)
           ELSE handle_create_round(p, event, user_id, user_email)
       ELSE IF http_method = "DELETE" THEN
           handle_delete_round(p, event, user_id, user_email)
       ELSE
           /\ Return(p, rounds_create_response(405, [error |-> "Method not allowed"]), <<>>)
           /\ UNCHANGED <<rounds, now, roundLog>>

RoundsEvent(method, path, sub, email, raw, data) ==
    [httpMethod |-> method, path |-> path, claims |-> [sub |-> sub, email |-> email],
     raw |-> raw, data |-> data]

LegacyRound == [initialRobotPositions |-> "irp", targetPositions |-> "tp"]

\* The ids a round can have within the clock's range.
RoundIds == {RoundIdOf(ms) : ms \in 0..MaxClock}

\* The identities that create rounds: two users, a user whose token carries
\* no email claim, and a caller with no identity claims.
RoundAuthors == {<<"u1", "e1">>, <<"u2", "e2">>, <<"u1", None>>, <<None, None>>}

\* The identities that delete: the authors, a user sharing u1's email, u1
\* with another email claim, and u2 without an email claim.
RoundCallers == RoundAuthors \cup {<<"u2", "e1">>, <<"u1", "e2">>, <<"u2", None>>}

RoundsEvents ==
    \* creates: the legacy body by every author; by u1 also with a configId,
    \* with walls and targets, under a config path, with only puzzleStates,
    \* with a field missing, without a body
    {RoundsEvent("POST", <<"rounds">>, a[1], a[2], "json", LegacyRound) : a \in RoundAuthors}
    \cup {RoundsEvent("POST", <<"rounds">>, "u1", "e1", "json", d) :
            d \in {[configId |-> "1"] @@ LegacyRound,
                   [walls |-> "w", targets |-> "t"] @@ LegacyRound,
                   [roundName |-> "n", puzzleStates |-> "ps"],
                   [puzzleStates |-> "ps"],
                   [initialRobotPositions |-> "irp"]}}
    \cup {RoundsEvent("POST", <<"rounds", "config", "2">>, "u1", "e1", "json", d) :
            d \in {LegacyRound, [configId |-> "1"] @@ LegacyRound,
                   [roundName |-> "n", puzzleStates |-> "ps"],
                   [puzzleStates |-> "ps"]}}
    \cup {RoundsEvent("POST", path, "u1", "e1", raw, Nil) :
            path \in {<<"rounds">>, <<"rounds", "config", "2">>}, raw \in {"null", "invalid"}}
    \* deletes and reads of every id by every caller
    \cup {RoundsEvent("DELETE", <<"rounds", id>>, c[1], c[2], "null", Nil) :
            id \in RoundIds, c \in RoundCallers}
    \cup {RoundsEvent("GET", <<"rounds", id>>, c[1], c[2], "null", Nil) :
            id \in RoundIds, c \in {<<"u2", "e2">>, <<None, None>>}}
    \cup {RoundsEvent("GET", <<"rounds", "config", RoundIdOf(0)>>, "u2", "e2", "null", Nil)}
    \* lists, other methods
    \cup {RoundsEvent("GET", path, c[1], c[2], "null", Nil) :
            path \in {<<"rounds">>, <<"rounds", "solved">>, <<"rounds", "baseline">>,
                      <<"rounds", "user-submitted">>, <<"rounds", "user-completed">>},
            c \in {<<"u2", "e2">>, <<None, None>>}}
    \cup {RoundsEvent(m, <<"rounds">>, c[1], c[2], "null", Nil) :
            m \in {"OPTIONS", "PUT"}, c \in {<<"u1", "e1">>, <<None, None>>}}
    \cup {RoundsEvent("DELETE", <<"rounds">>, "u1", "e1", "null", Nil)}

\* Invocations of the rounds handler, one at a time: one slot.
RoundsNext ==
    \/ Tick
    \/ \E event \in RoundsEvents :
          nreq < MaxReqs /\ rounds_lambda_handler(1, event)
    \/ handle_delete_round_delete(1)

RoundsSpec == Init /\ [][RoundsNext]_vars

----------------------------------------------------------------------------
(* board-configurations.py *)

ConfigHeaders == [origin |-> "*", methods |-> "GET,POST,PUT,DELETE,OPTIONS"]

config_response_after_failure(data, status_code) ==
    [statusCode |-> 500, headers |-> ConfigHeaders,
     body |-> [error |-> "Internal server error"]]

config_success_response(data, status_code) ==
    [statusCode |-> status_code, headers |-> ConfigHeaders, body |-> data]

config_error_response(status_code, message) ==
    [statusCode |-> status_code, headers |-> ConfigHeaders, body |-> [error |-> message]]

config_cors_response ==
    [statusCode |-> 200, headers |-> ConfigHeaders, body |-> EmptyBody]

Max(S) == CHOOSE x \in S : \A y \in S : y <= x

\* int(item['configId']) succeeds on the decimal strings; it raises
\* ValueError on any other id, which create_configuration skips.
IsNumeric(config_id) == \E n \in 0..(MaxCfgReqs + 1) : ToString(n) = config_id

IntOf(config_id) == CHOOSE n \in 0..(MaxCfgReqs + 1) : ToString(n) = config_id

QueryConfigsAllOwners(table, user_id) == {table[k] : k \in DOMAIN table}

\* query(KeyConditionExpression='userId = :userId'): the owner's items.
QueryConfigs(table, user_id) == {table[k] : k \in {k \in DOMAIN table : k[1] = user_id}}

\* existing_ids: the numeric configIds among the items queried.
ExistingIds(items) ==
    {IntOf(item.configId) : item \in {i \in items : IsNumeric(i.configId)}}

NextConfigIdByCount(existing_ids) == ToString(Cardinality(existing_ids) + 1)

\* config_id = str(max(existing_ids) + 1 if existing_ids else 1)
NextConfigId(existing_ids) ==
    ToString(IF existing_ids # {} THEN Max(existing_ids) + 1 ELSE 1)

\* The view of an item that get and list return.
ConfigView(item) ==
    [walls |-> item.walls, targets |-> item.targets,
     createdAt |-> item.createdAt, updatedAt |-> item.updatedAt]

\* The answer is a dict from configId to view: here the set of its entries.
get_configurations(p, user_id) ==
    /\ Return(p, config_success_response(
                    [Items |-> {[configId |-> item.configId, view |-> ConfigView(item)] :
                                    item \in QueryConfigs(configs, user_id)}], 200),
              <<"query">>)
    /\ UNCHANGED <<configs, cfgLog, lastDelete>>

get_configuration(p, user_id, config_id) ==
    /\ LET response == get_item(configs, <<user_id, config_id>>)
       IN  IF "Item" \notin DOMAIN response
           THEN Return(p, config_error_response(404, "Configuration not found"), <<"get_item">>)
           ELSE Return(p, config_success_response(ConfigView(response.Item), 200),
                       <<"get_item">>)
    /\ UNCHANGED <<configs, cfgLog, lastDelete>>

\* create_configuration up to and including its query and the choice of the id.
create_configuration(p, user_id, data) ==
    /\ UNCHANGED <<configs, cfgLog, lastDelete>>
    /\ IF "walls" \notin DOMAIN data \/ "targets" \notin DOMAIN data THEN
           Return(p, config_error_response(400, "Missing walls or targets data"), <<>>)
       ELSE
           LET items == QueryConfigs(configs, user_id)
               config_id == NextConfigId(ExistingIds(items))
           IN  Suspend(p, "create_configuration_put",
                       [userId |-> user_id,
                        configId |-> config_id,
                        walls |-> data.walls,
                        targets |-> data.targets,
                        createdAt |-> now,
                        updatedAt |-> now], <<"query">>)

PutConfigIfAbsent(table, key, item) ==
    IF key \in DOMAIN table THEN table ELSE put_item(table, key, item)

\* table.put_item(Item=item): unconditional.
PutConfig(table, key, item) == put_item(table, key, item)

\* create_configuration from its put_item to its return.
create_configuration_put(p) ==
    /\ pc[p] = "create_configuration_put"
    /\ configs' = PutConfig(configs, <<loc[p].userId, loc[p].configId>>, loc[p])
    /\ cfgLog' = Append(cfgLog, [userId |-> loc[p].userId, configId |-> loc[p].configId,
                                 walls |-> loc[p].walls])
    /\ Return(p, config_success_response([configId |-> loc[p].configId], 201),
              Append(acc[p], "put_item"))
    /\ UNCHANGED <<rounds, scores, profiles, now, submitted, accepted, lastDelete, roundLog,
                   nreq>>

UpdatedConfigItemRestamped(item, user_id, config_id, data) ==
    [userId |-> user_id,
     configId |-> config_id,
     walls |-> data.walls,
     targets |-> data.targets,
     createdAt |-> now,
     updatedAt |-> now]

\* The Item that update_configuration puts: the walls and targets of the
\* body, createdAt of the stored item.
UpdatedConfigItem(item, user_id, config_id, data) ==
    [userId |-> user_id,
     configId |-> config_id,
     walls |-> data.walls,
     targets |-> data.targets,
     createdAt |-> item.createdAt,
     updatedAt |-> now]

\* update_configuration up to and including its get_item and the validation.
update_configuration(p, user_id, config_id, data) ==
    /\ UNCHANGED <<configs, cfgLog, lastDelete>>
    /\ LET response == get_item(configs, <<user_id, config_id>>)
       IN  IF "Item" \notin DOMAIN response THEN
               Return(p, config_error_response(404, "Configuration not found"), <<"get_item">>)
           ELSE IF "walls" \notin DOMAIN data \/ "targets" \notin DOMAIN data THEN
               Return(p, config_error_response(400, "Missing walls or targets data"),
                      <<"get_item">>)
           ELSE
               Suspend(p, "update_configuration_put",
                       UpdatedConfigItem(response.Item, user_id, config_id, data),
                       <<"get_item">>)

\* update_configuration from its put_item to its return.
update_configuration_put(p) ==
    /\ pc[p] = "update_configuration_put"
    /\ configs' = PutConfig(configs, <<loc[p].userId, loc[p].configId>>, loc[p])
    /\ Return(p, config_success_response([message |-> "Configuration updated successfully"], 200),
              Append(acc[p], "put_item"))
    /\ UNCHANGED <<rounds, scores, profiles, now, submitted, accepted, cfgLog, lastDelete, roundLog, nreq>>

\* delete_configuration up to and including its get_item.
delete_configuration(p, user_id, config_id) ==
    /\ UNCHANGED <<configs, cfgLog, lastDelete>>
    /\ LET response == get_item(configs, <<user_id, config_id>>)
       IN  IF "Item" \notin DOMAIN response THEN
               Return(p, config_error_response(404, "Configuration not found"), <<"get_item">>)
           ELSE
               Suspend(p, "delete_configuration_delete",
                       [userId |-> user_id, configId |-> config_id], <<"get_item">>)

\* config_id is the highest numeric configId stored for user_id in table.
IsHighestId(table, user_id, config_id) ==
    /\ <<user_id, config_id>> \in DOMAIN table
    /\ IsNumeric(config_id)
    /\ \A k \in DOMAIN table :
          (k[1] = user_id /\ IsNumeric(k[2])) => IntOf(k[2]) <= IntOf(config_id)

\* delete_configuration from its delete_item to its return; a delete of the
\* owner's highest id is recorded with the number of creates answered before
\* it.
delete_configuration_delete(p) ==
    /\ pc[p] = "delete_configuration_delete"
    /\ configs' = delete_item(configs, <<loc[p].userId, loc[p].configId>>)
    /\ lastDelete' = IF IsHighestId(configs, loc[p].userId, loc[p].configId)
                     THEN [userId |-> loc[p].userId, configId |-> loc[p].configId,
                           highest |-> TRUE, creates |-> Len(cfgLog)]
                     ELSE NoDelete
    /\ Return(p, config_success_response([message |-> "Configuration deleted successfully"], 200),
              Append(acc[p], "delete_item"))
    /\ UNCHANGED <<rounds, scores, profiles, now, submitted, accepted, cfgLog, roundLog, nreq>>

\* event: path is the sequence of its segments, configId is
\* pathParameters.configId, raw and data are the body as for the other handlers.
config_lambda_handler(p, event) ==
    /\ pc[p] = "idle"
    /\ nreq' = nreq + 1
    /\ UNCHANGED <<rounds, scores, profiles, now, submitted, accepted, roundLog>>
    /\ LET http_method == event.httpMethod
           path == event.path
           user_id == event.claims.sub
           MethodNotAllowed ==
               /\ Return(p, config_error_response(405, "Method not allowed"), <<>>)
               /\ UNCHANGED <<configs, cfgLog, lastDelete>>
           \* json.loads(event['body'])
           WithBody(handle(_)) ==
               IF event.raw = "invalid" THEN
                   /\ Return(p, config_error_response(400, "Invalid JSON in request body"), <<>>)
                   /\ UNCHANGED <<configs, cfgLog, lastDelete>>
               ELSE IF event.raw = "null" THEN
                   /\ Return(p, config_error_response(500, "Internal server error"), <<>>)
                   /\ UNCHANGED <<configs, cfgLog, lastDelete>>
               ELSE handle(event.data)
       IN
       IF user_id = None THEN
           \* event['requestContext']['authorizer']['claims']['sub'] raises KeyError
           /\ Return(p, config_error_response(400, "Missing required parameter: 'sub'"), <<>>)
           /\ UNCHANGED <<configs, cfgLog, lastDelete>>
       ELSE IF http_method = "OPTIONS" THEN
           /\ Return(p, config_cors_response, <<>>)
           /\ UNCHANGED <<configs, cfgLog, lastDelete>>
       ELSE IF path = <<"configurations">> THEN
           IF http_method = "GET" THEN get_configurations(p, user_id)
           ELSE IF http_method = "POST" THEN
               WithBody(LAMBDA data : create_configuration(p, user_id, data))
           ELSE MethodNotAllowed
       ELSE IF Len(path) >= 2 /\ path[1] = "configurations" THEN
           LET config_id == event.configId
           IN  IF http_method = "GET" THEN get_configuration(p, user_id, config_id)
               ELSE IF http_method = "PUT" THEN
                   WithBody(LAMBDA data : update_configuration(p, user_id, config_id, data))
               ELSE IF http_method = "DELETE" THEN delete_configuration(p, user_id, config_id)
               ELSE MethodNotAllowed
       ELSE MethodNotAllowed

ConfigEvent(method, config_id, sub, raw, data) ==
    [httpMethod |-> method,
     path |-> IF config_id = None THEN <<"configurations">>
              ELSE <<"configurations", config_id>>,
     configId |-> config_id,
     claims |-> [sub |-> sub, email |-> IF sub = "u1" THEN "e1" ELSE IF sub = "u2" THEN "e2" ELSE None],
     raw |-> raw, data |-> data]

\* Creates by u1 with either wall set.
ConfigCreates ==
    {ConfigEvent("POST", None, "u1", "json", [walls |-> w, targets |-> "t"]) :
        w \in {"w1", "w2"}}

ConfigEvents ==
    ConfigCreates
    \cup {ConfigEvent("POST", None, "u2", "json", [walls |-> "w1", targets |-> "t"])}
    \cup {ConfigEvent("POST", None, "u1", "json", d) : d \in {[walls |-> "w1"], [targets |-> "t"]}}
    \cup {ConfigEvent("POST", None, "u1", raw, Nil) : raw \in {"invalid", "null"}}
    \cup {ConfigEvent("PUT", id, "u1", "json", d) :
            id \in {"1", "2"}, d \in {[walls |-> "w3", targets |-> "t"], [walls |-> "w3"]}}
    \cup {ConfigEvent(m, id, u, "null", Nil) :
            m \in {"GET", "DELETE"}, id \in {"1", "2"}, u \in Users}
    \cup {ConfigEvent(m, None, u, "null", Nil) :
            m \in {"GET", "OPTIONS", "DELETE"}, u \in {"u1", None}}
    \cup {ConfigEvent("POST", "1", "u1", "null", Nil)}

\* Creates of configurations by one owner, overlapping freely.
ConfigNext ==
    \/ Tick
    \/ \E p \in Procs, event \in ConfigCreates :
          nreq < MaxReqs /\ config_lambda_handler(p, event)
    \/ \E p \in Procs : create_configuration_put(p)

ConfigSpec == Init /\ [][ConfigNext]_vars

\* Invocations of the configurations handler, of every kind, that do not
\* overlap: one slot.
ConfigSeqNext ==
    \/ Tick
    \/ \E event \in ConfigEvents :
          nreq < MaxCfgReqs /\ config_lambda_handler(1, event)
    \/ create_configuration_put(1)
    \/ update_configuration_put(1)
    \/ delete_configuration_delete(1)

ConfigSeqSpec == Init /\ [][ConfigSeqNext]_vars

----------------------------------------------------------------------------
(* Claims about scores.py *)

\* The event is a submission that reaches submit_score with moves and
\* moveSequence; SubmissionKey is the key it is stored under.
IsSubmission(event) ==
    /\ event.httpMethod = "POST"
    /\ event.claims.sub # None
    /\ event.raw = "json"
    /\ {"moves", "moveSequence"} \subseteq DOMAIN event.data
    /\ (event.roundId # None \/ "roundId" \in DOMAIN event.data)

SubmissionKey(event) ==
    <<IF event.roundId # None THEN event.roundId ELSE event.data.roundId,
      event.claims.sub>>

\* C1: after any sequence of non-overlapping submissions for a (round, user),
\* the stored moves is the lowest moves submitted so far, the stored
\* attemptCount is 1 plus the number of later submissions that were lower
\* than every earlier one, exactly those and the first were answered 201,
\* and a 201 answer carries personalBest true.
C1_BestOfSubmissions ==
    pc[1] = "idle" =>
        /\ \A key \in DOMAIN submitted :
              /\ key \in DOMAIN scores
              /\ scores[key].moves = submitted[key].min
              /\ scores[key].attemptCount = 1 + submitted[key].imp
              /\ key \in DOMAIN accepted
              /\ accepted[key].n = 1 + submitted[key].imp
              /\ submitted[key].imp = 0 => scores[key].attemptCount = 1
        /\ resp[1].statusCode = 201 => resp[1].body.personalBest = TRUE

\* C1 witness: a higher, then a lower, then the highest moves were submitted
\* by u1 (20, 15, 25): the record holds the lower one with attemptCount 2 and
\* the third submission was answered "not improved".
C1_Witness ==
    /\ pc[1] = "idle"
    /\ nreq = 3
    /\ <<"round_1", "u1">> \in DOMAIN scores
    /\ scores[<<"round_1", "u1">>].moves = 0 - 1
    /\ scores[<<"round_1", "u1">>].attemptCount = 2
    /\ submitted[<<"round_1", "u1">>] = [min |-> 0 - 1, imp |-> 1]
    /\ resp[1].statusCode = 200
    /\ resp[1].body = [message |-> "Score not improved", currentBest |-> 0 - 1,
                       submitted |-> 1, personalBest |-> FALSE]

\* C2: a submission whose moves is not lower than the stored moves of its
\* key (equal included) writes nothing and suspends no put: the table is
\* unchanged and the answer is 200 with personalBest false, currentBest the
\* stored moves and submitted the submitted moves.
C2_NotImprovedWritesNothing ==
    [][\A p \in Procs, event \in ScoresEvents :
          (/\ IsSubmission(event)
           /\ SubmissionKey(event) \in DOMAIN scores
           /\ event.data.moves >= scores[SubmissionKey(event)].moves
           /\ scores_lambda_handler(p, event))
          => /\ scores' = scores
             /\ pc'[p] = "idle"
             /\ acc'[p] = <<"get_item">>
             /\ resp'[p].statusCode = 200
             /\ resp'[p].body =
                    [message |-> "Score not improved",
                     currentBest |-> scores[SubmissionKey(event)].moves,
                     submitted |-> event.data.moves,
                     personalBest |-> FALSE]]_vars

\* C2 witness: a submission with moves equal to the stored moves was answered
\* "not improved"; the record read differs from it in moveSequence and time.
C2_Witness ==
    \E p \in Procs :
        /\ pc[p] = "idle"
        /\ resp[p].statusCode = 200
        /\ "currentBest" \in DOMAIN resp[p].body
        /\ resp[p].body.currentBest = resp[p].body.submitted
        /\ <<"round_1", "u1">> \in DOMAIN scores
        /\ scores[<<"round_1", "u1">>].moves = resp[p].body.currentBest
        /\ scores[<<"round_1", "u1">>].completedAt < now
        /\ <<"round_1", "u2">> \notin DOMAIN scores

\* C3: the put of submit_score is unconditional: whatever is stored when it
\* runs, the stored record becomes the item of the invocation that puts (its
\* attemptCount the one computed from the record it had read), and the
\* invocation is answered 201 with these moves.
C3_LaterPutWins ==
    [][\A p \in Procs :
          submit_score_put(p) =>
              /\ scores'[<<loc[p].roundId, loc[p].userId>>] = loc[p]
              /\ resp'[p].statusCode = 201
              /\ resp'[p].body.moves = scores'[<<loc[p].roundId, loc[p].userId>>].moves]_vars

\* C3 witness: three submissions were answered 201, the last two having read
\* the same record; the stored moves is higher than a moves answered 201 and
\* the attemptCount is 2, not 3.
C3_Witness ==
    \E key \in DOMAIN scores :
        /\ \A p \in Procs : pc[p] = "idle" /\ resp[p].statusCode = 201
        /\ accepted[key].n = 3
        /\ scores[key].moves > accepted[key].min
        /\ scores[key].attemptCount = 2
        /\ \A p \in Procs : resp[p].body.attemptCount = 2

----------------------------------------------------------------------------
(* Claims about rounds.py *)

\* The event is DELETE /rounds/{id} for a stored id.
IsDeleteOfStored(event) ==
    /\ event.httpMethod = "DELETE"
    /\ Len(event.path) = 2
    /\ event.path[2] \in DOMAIN rounds

\* C4: a request that is not OPTIONS and carries no subject id is answered
\* 401 without a store call.
C4_NoIdentityIs401 ==
    [][\A event \in RoundsEvents :
          (/\ event.httpMethod # "OPTIONS"
           /\ event.claims.sub = None
           /\ rounds_lambda_handler(1, event))
          => /\ resp'[1].statusCode = 401
             /\ acc'[1] = <<>>]_vars

\* C5: an OPTIONS request is answered 200 with the CORS headers and an empty
\* body, with or without identity claims, without a store call.
C5_OptionsIs200 ==
    [][\A event \in RoundsEvents :
          (/\ event.httpMethod = "OPTIONS"
           /\ rounds_lambda_handler(1, event))
          => /\ resp'[1].statusCode = 200
             /\ resp'[1].headers = RoundsHeaders
             /\ resp'[1].body = EmptyBody
             /\ acc'[1] = <<>>]_vars

\* C6: DELETE /rounds/{id} by a caller whose user id differs from the stored
\* authorId is answered 403 and leaves the round stored and unchanged,
\* whatever the email claims (stated for callers and authors that have a
\* user id).
C6_NonAuthorDeleteIs403 ==
    [][\A event \in RoundsEvents :
          (/\ IsDeleteOfStored(event)
           /\ event.claims.sub # None
           /\ rounds[event.path[2]].authorId # None
           /\ rounds[event.path[2]].authorId # event.claims.sub
           /\ rounds_lambda_handler(1, event))
          => /\ resp'[1].statusCode = 403
             /\ pc'[1] = "idle"
             /\ rounds' = rounds]_vars

\* C7: DELETE /rounds/{id} by the user recorded as authorId goes on to delete
\* the round; the delete removes the record and is answered 200, after which
\* the id is not stored (a GET of an id that is not stored is answered 404);
\* DELETE of an id that is not stored is answered 404.
C7_AuthorDeleteRemoves ==
    [][/\ \A event \in RoundsEvents :
            (/\ IsDeleteOfStored(event)
             /\ event.claims.sub # None
             /\ rounds[event.path[2]].authorId = event.claims.sub
             /\ rounds_lambda_handler(1, event))
            => pc'[1] = "handle_delete_round_delete"
       /\ handle_delete_round_delete(1)
            => /\ loc[1].roundId \notin DOMAIN rounds'
               /\ resp'[1].statusCode = 200
       /\ \A event \in RoundsEvents :
            (/\ event.httpMethod \in {"GET", "DELETE"}
             /\ Len(event.path) = 2
             /\ event.path[2] \in RoundIds \ DOMAIN rounds
             /\ rounds_lambda_handler(1, event))
            => /\ resp'[1].statusCode = 404
               /\ rounds' = rounds]_vars

\* The last create answered 201 with the id.
LastCreateOf(id) ==
    roundLog[CHOOSE i \in 1..Len(roundLog) :
                /\ roundLog[i].roundId = id
                /\ \A j \in (i + 1)..Len(roundLog) : roundLog[j].roundId # id]

\* C10: a roundId is a function of the millisecond of its creation alone:
\* creates answered 201 have the same roundId exactly when they read the same
\* millisecond, whoever the author; a stored round is the one of the last
\* create answered 201 with its id (authorId and authorEmail included).
C10_RoundIdFromClock ==
    /\ \A i, j \in 1..Len(roundLog) :
          (roundLog[i].ms = roundLog[j].ms) <=> (roundLog[i].roundId = roundLog[j].roundId)
    /\ \A id \in DOMAIN rounds :
          /\ \E i \in 1..Len(roundLog) : roundLog[i].roundId = id
          /\ rounds[id].roundId = id
          /\ rounds[id].authorId = LastCreateOf(id).authorId
          /\ rounds[id].authorEmail = LastCreateOf(id).authorEmail

\* C10 witness: two creates by different users in the same millisecond were
\* both answered 201 with the same roundId, a third create in another
\* millisecond got another id, and the record of the first is gone: the one
\* stored under the id has the second author.
C10_Witness ==
    /\ Len(roundLog) = 3
    /\ roundLog[1].ms = roundLog[2].ms
    /\ roundLog[1].roundId = roundLog[2].roundId
    /\ roundLog[1].authorId = "u1"
    /\ roundLog[2].authorId = "u2"
    /\ roundLog[3].roundId # roundLog[1].roundId
    /\ roundLog[1].roundId \in DOMAIN rounds
    /\ rounds[roundLog[1].roundId].authorId = "u2"
    /\ rounds[roundLog[1].roundId].authorEmail = "e2"
    /\ Cardinality(DOMAIN rounds) = 2
    /\ resp[1].statusCode = 201

----------------------------------------------------------------------------
(* Claims about board-configurations.py *)

\* The numbers n whose decimal string is a configId stored for the owner.
StoredNumbers(user_id) ==
    {n \in 0..(MaxCfgReqs + 1) : <<user_id, ToString(n)>> \in DOMAIN configs}

\* C8: a create that runs to completion without overlap is answered 201 with
\* configId the string of (the highest numeric configId stored for the owner)
\* + 1, or "1" when the owner has none; it stores the item under that id and
\* changes no other record, and the ids of other owners play no part.
C8_NextIdIsMaxPlusOne ==
    [][create_configuration_put(1) =>
          LET user_id == loc[1].userId
              expected == IF StoredNumbers(user_id) = {} THEN "1"
                          ELSE ToString(Max(StoredNumbers(user_id)) + 1)
          IN  /\ resp'[1].statusCode = 201
              /\ resp'[1].body = [configId |-> expected]
              /\ DOMAIN configs' = DOMAIN configs \cup {<<user_id, expected>>}
              /\ configs'[<<user_id, expected>>].walls = loc[1].walls
              /\ \A k \in DOMAIN configs : configs'[k] = configs[k]]_vars

\* C8 witness: u1's first create got "1" and its second "2"; after "1" was
\* deleted, a create by u2 got "1" and the next create by u1 got "3".
C8_Witness ==
    /\ Len(cfgLog) = 4
    /\ [i \in 1..4 |-> <<cfgLog[i].userId, cfgLog[i].configId>>]
          = <<(<<"u1", "1">>), (<<"u1", "2">>), (<<"u2", "1">>), (<<"u1", "3">>)>>
    /\ DOMAIN configs = {<<"u1", "2">>, <<"u1", "3">>, <<"u2", "1">>}
    /\ pc[1] = "idle"

\* C9: the put of create_configuration is unconditional: whatever is stored
\* under the id chosen from the earlier query, the put stores this
\* invocation's item there and the invocation is answered 201 with that id.
C9_CreatePutOverwrites ==
    [][\A p \in Procs :
          create_configuration_put(p) =>
              /\ configs'[<<loc[p].userId, loc[p].configId>>] = loc[p]
              /\ resp'[p].statusCode = 201
              /\ resp'[p].body.configId = loc[p].configId]_vars

\* C9 witness: two overlapping creates by u1 were both answered 201 with the
\* same configId, and one configuration is stored: that of the later put.
C9_Witness ==
    /\ \A p \in Procs : pc[p] = "idle" /\ resp[p].statusCode = 201
    /\ resp[1].body.configId = resp[2].body.configId
    /\ Len(cfgLog) = 2
    /\ cfgLog[1].userId = cfgLog[2].userId
    /\ cfgLog[1].configId = cfgLog[2].configId
    /\ cfgLog[1].walls # cfgLog[2].walls
    /\ DOMAIN configs = {<<cfgLog[2].userId, cfgLog[2].configId>>}
    /\ configs[<<cfgLog[2].userId, cfgLog[2].configId>>].walls = cfgLog[2].walls

----------------------------------------------------------------------------
(* Creates of rounds and of configurations *)

RoundCreates == {event \in RoundsEvents : event.httpMethod = "POST"}

ConfigPosts ==
    {event \in ConfigEvents : event.httpMethod = "POST" /\ event.path = <<"configurations">>}

\* POST requests to the rounds handler and to the configurations handler,
\* one at a time: one slot.
CreatesNext ==
    \/ Tick
    \/ \E event \in RoundCreates :
          nreq < MaxReqs /\ rounds_lambda_handler(1, event)
    \/ \E event \in ConfigPosts :
          nreq < MaxReqs /\ config_lambda_handler(1, event)
    \/ create_configuration_put(1)

CreatesSpec == Init /\ [][CreatesNext]_vars

----------------------------------------------------------------------------
(* Lists of rounds *)

ListPaths ==
    {<<"rounds">>, <<"rounds", "solved">>, <<"rounds", "baseline">>,
     <<"rounds", "user-submitted">>, <<"rounds", "user-completed">>}

\* Creates of rounds by two authors, a score for the round of the first
\* millisecond, and the five lists read by an author, by another user and
\* by a caller without identity.
ViewsRoundsEvents ==
    {RoundsEvent("POST", <<"rounds">>, a[1], a[2], "json", LegacyRound) :
        a \in {<<"u1", "e1">>, <<"u2", "e2">>}}
    \cup {RoundsEvent("GET", path, c[1], c[2], "null", Nil) :
            path \in ListPaths, c \in {<<"u1", "e1">>, <<"u2", "e2">>, <<None, None>>}}

ViewsScoresEvents ==
    {ScoresEvent("POST", "u1", "e1", RoundIdOf(0), "json",
                 [moves |-> 0, moveSequence |-> "seqA"])}

ViewsNext ==
    \/ Tick
    \/ \E event \in ViewsRoundsEvents :
          nreq < MaxBoardReqs /\ rounds_lambda_handler(1, event)
    \/ \E event \in ViewsScoresEvents :
          nreq < MaxBoardReqs /\ scores_lambda_handler(1, event)
    \/ submit_score_put(1)

ViewsSpec == Init /\ [][ViewsNext]_vars

----------------------------------------------------------------------------
(* user-profiles.py *)

\* A string that the code inspects character by character is the sequence
\* of its characters.  Letters and digits; the other characters the model
\* uses are "_", "-", " " (whitespace) and "!".
Alnum == {"a", "b", "c", "1"}
Whitespace == {" "}

\* JSON values of a request body: a string, null, a number.
Str(chars) == [str |-> chars]
JNull == [null |-> TRUE]
JNum(n) == [num |-> n]

Rep(c, n) == [i \in 1..n |-> c]

RECURSIVE lstrip(_)
lstrip(s) == IF s # <<>> /\ Head(s) \in Whitespace THEN lstrip(Tail(s)) ELSE s

RECURSIVE rstrip(_)
rstrip(s) ==
    IF s # <<>> /\ s[Len(s)] \in Whitespace THEN rstrip(SubSeq(s, 1, Len(s) - 1)) ELSE s

\* str.strip()
strip(s) == rstrip(lstrip(s))

\* str.replace(c, '')
replace(s, c) == SelectSeq(s, LAMBDA x : x # c)

\* str.isalnum(): not empty and every character a letter or a digit
isalnum(s) == s # <<>> /\ \A i \in 1..Len(s) : s[i] \in Alnum

MinUsernameLen == 3
MaxUsernameLen == 20

ProfilesHeaders == [origin |-> "*", methods |-> "GET,PUT,POST,DELETE,OPTIONS"]

profiles_success_response(data) ==
    [statusCode |-> 200, headers |-> ProfilesHeaders, body |-> data]

profiles_error_response(status_code, message) ==
    [statusCode |-> status_code, headers |-> ProfilesHeaders, body |-> [error |-> message]]

profiles_cors_response ==
    [statusCode |-> 200, headers |-> ProfilesHeaders, body |-> EmptyBody]

\* dict.get(key): None when the key is absent.
Get(d, key) == IF key \in DOMAIN d THEN d[key] ELSE JNull

DefaultProfileNamed(user_id, user_email) ==
    [userId |-> user_id, email |-> user_email, username |-> Str(<<"a", "b", "c">>),
     createdAt |-> now]

\* The minimal profile returned when none is stored.
DefaultProfile(user_id, user_email) ==
    [userId |-> user_id, email |-> user_email, username |-> JNull, createdAt |-> now]

get_user_profile(p, user_id, user_email) ==
    /\ LET response == get_item(profiles, user_id)
           profile == IF "Item" \in DOMAIN response THEN response.Item
                      ELSE DefaultProfile(user_id, user_email)
       IN  Return(p, profiles_success_response(profile), <<"get_item">>)
    /\ UNCHANGED profiles

PublicInfoWholeProfile(target_user_id, profile) ==
    [k \in DOMAIN profile \cup {"userId", "username", "email"} |->
        IF k = "userId" THEN target_user_id ELSE Get(profile, k)]

\* public_info of a stored profile
PublicInfo(target_user_id, profile) ==
    [userId |-> target_user_id,
     username |-> Get(profile, "username"),
     email |-> IF "email" \in DOMAIN profile THEN profile.email ELSE None]

get_username_by_user_id(p, target_user_id) ==
    /\ LET response == get_item(profiles, target_user_id)
           public_info == IF "Item" \in DOMAIN response
                          THEN PublicInfo(target_user_id, response.Item)
                          ELSE [userId |-> target_user_id, username |-> JNull, email |-> None]
       IN  Return(p, profiles_success_response(public_info), <<"get_item">>)
    /\ UNCHANGED profiles

UsernameLengthOkExclusive(username) ==
    Len(username) > MinUsernameLen /\ Len(username) < MaxUsernameLen

\* neither len(username) < 3 nor len(username) > 20
UsernameLengthOk(username) ==
    ~(Len(username) < MinUsernameLen) /\ ~(Len(username) > MaxUsernameLen)

\* username.replace('_', '').replace('-', '').isalnum()
UsernameCharsOk(username) == isalnum(replace(replace(username, "_"), "-"))

MergeKeysUnprotected(profile_data) ==
    {key \in DOMAIN profile_data :
        key \in {"userId", "email", "createdAt", "updatedAt"} \/ profile_data[key] # JNull}

\* The keys of the body that the loop copies into the profile.
MergeKeys(profile_data) ==
    {key \in DOMAIN profile_data :
        key \notin {"userId", "email", "createdAt", "updatedAt"} /\ profile_data[key] # JNull}

\* update_user_profile up to and including its get_item, and the profile
\* it builds from the item read.  is_dict: the body parsed to an object.
update_user_profile(p, user_id, user_email, profile_data, is_dict) ==
    LET raw == Get(profile_data, "username")
        given == raw # JNull
        username == IF given /\ "str" \in DOMAIN raw THEN strip(raw.str) ELSE <<>>
        Reject(message) ==
            /\ Return(p, profiles_error_response(400, message), <<>>)
            /\ UNCHANGED profiles
    IN
    IF ~is_dict THEN Reject("Profile data must be an object")
    ELSE IF given /\ "str" \notin DOMAIN raw THEN Reject("Username must be a string")
    ELSE IF given /\ ~UsernameLengthOk(username) THEN
        Reject(IF Len(username) < MinUsernameLen
               THEN "Username must be at least 3 characters long"
               ELSE "Username must be no more than 20 characters long")
    ELSE IF given /\ ~UsernameCharsOk(username) THEN
        Reject("Username can only contain letters, numbers, hyphens, and underscores")
    ELSE
        LET existing_response == get_item(profiles, user_id)
            profile0 == IF "Item" \in DOMAIN existing_response
                        THEN ("updatedAt" :> now) @@ existing_response.Item
                        ELSE [userId |-> user_id, email |-> user_email,
                              createdAt |-> now, updatedAt |-> now]
            profile1 == IF given THEN ("username" :> Str(username)) @@ profile0
                        ELSE profile0
            keys == MergeKeys(profile_data)
            profile == [k \in DOMAIN profile1 \cup keys |->
                           IF k \in keys THEN profile_data[k] ELSE profile1[k]]
        IN  /\ Suspend(p, "update_user_profile_put",
                       [profile |-> profile, user_id |-> user_id, user_email |-> user_email],
                       <<"get_item">>)
            /\ UNCHANGED profiles

\* profiles_table.put_item(Item=profile): the key is the item's userId.
PutProfile(table, item) == put_item(table, item.userId, item)

\* update_user_profile from its put_item to its return.
update_user_profile_put(p) ==
    /\ pc[p] = "update_user_profile_put"
    /\ profiles' = PutProfile(profiles, loc[p].profile)
    /\ Return(p, profiles_success_response(loc[p].profile), Append(acc[p], "put_item"))
    /\ UNCHANGED <<configs, rounds, scores, now, submitted, accepted, cfgLog, lastDelete, roundLog, nreq>>

\* event: path is the sequence of the path's segments; raw tells whether
\* the body parses to an object ("json": to data), to another JSON value
\* ("list") or makes json.loads raise ("invalid").
ProfilesEvent(method, path, sub, email, raw, data) ==
    [httpMethod |-> method, path |-> path, claims |-> [sub |-> sub, email |-> email],
     raw |-> raw, data |-> data]

profiles_lambda_handler(p, event) ==
    /\ pc[p] = "idle"
    /\ nreq' = nreq + 1
    /\ UNCHANGED <<configs, rounds, scores, now, submitted, accepted, cfgLog, lastDelete, roundLog>>
    /\ LET http_method == event.httpMethod
           path == event.path
           user_id == event.claims.sub
           user_email == event.claims.email
       IN
       IF http_method = "OPTIONS" THEN
           /\ Return(p, profiles_cors_response, <<>>)
           /\ UNCHANGED profiles
       ELSE IF user_id = None THEN
           /\ Return(p, profiles_error_response(401, "Unauthorized: No user ID found"), <<>>)
           /\ UNCHANGED profiles
       ELSE IF http_method = "GET" THEN
           IF Len(path) >= 3 /\ \E i \in 1..(Len(path) - 2) :
                                    path[i] = "user" /\ path[i + 1] = "username"
           THEN get_username_by_user_id(p, path[Len(path)])
           ELSE get_user_profile(p, user_id, user_email)
       ELSE IF http_method = "PUT" THEN
           IF event.raw = "invalid" THEN
               /\ Return(p, profiles_error_response(400, "Invalid JSON in request body"), <<>>)
               /\ UNCHANGED profiles
           ELSE update_user_profile(p, user_id, user_email, event.data, event.raw = "json")
       ELSE
           /\ Return(p, profiles_error_response(405, "Method not allowed"), <<>>)
           /\ UNCHANGED profiles

\* Usernames of a request body: of trimmed length 2, 3, 20 and 21, padded
\* with whitespace, with hyphen and underscore, with other characters.
Usernames ==
    {<<"a", "b">>, <<"a", "b", "c">>, <<" ", "a", "b", "c", " ">>, <<" ", "a", "b", " ">>,
     Rep("a", MaxUsernameLen), Rep("a", MaxUsernameLen + 1),
     Rep("a", MaxUsernameLen) \o <<" ">>, Rep("1", MaxUsernameLen + 1) \o <<" ">>,
     <<"a", "_", "-">>, <<"_", "-", "_">>, <<"a", "!", "c">>, <<"a", " ", "c">>, <<>>}

Bios == {Str(<<"b">>), Str(<<"c">>)}

\* A body that supplies the identity fields.
ForgedBody ==
    [userId |-> "u2", email |-> "e2", createdAt |-> 99, updatedAt |-> 99,
     bio |-> Str(<<"1">>)]

ProfileBodies ==
    {[username |-> Str(u)] : u \in Usernames}
    \cup {[username |-> JNull, bio |-> b] : b \in Bios}
    \cup {[username |-> JNum(5)], ForgedBody,
          [username |-> Str(<<"a", "b", "c">>), bio |-> JNull]}

ProfilesEvents ==
    {ProfilesEvent("PUT", <<"user", "profile">>, "u1", "e1", "json", d) : d \in ProfileBodies}
    \cup {ProfilesEvent("PUT", <<"user", "profile">>, "u1", "e1", raw, Nil) :
            raw \in {"invalid", "list"}}
    \cup {ProfilesEvent("PUT", <<"user", "profile">>, "u2", None, "json", d) :
            d \in {[username |-> Str(<<"a", "b", "c">>)], ForgedBody}}
    \cup {ProfilesEvent("GET", <<"user", "profile">>, c[1], c[2], "json", Nil) :
            c \in {<<"u1", "e1">>, <<"u2", "e2">>}}
    \cup {ProfilesEvent("GET", <<"user", "username", t>>, "u1", "e1", "json", Nil) :
            t \in {"u1", "u2"}}
    \cup {ProfilesEvent(m, <<"user", "profile">>, c[1], c[2], "json", Nil) :
            m \in {"OPTIONS", "DELETE", "GET"}, c \in {<<"u1", "e1">>, <<None, None>>}}

\* Invocations of the profiles handler that do not overlap: one slot.
ProfilesNext ==
    \/ Tick
    \/ \E event \in ProfilesEvents :
          nreq < MaxReqs /\ profiles_lambda_handler(1, event)
    \/ update_user_profile_put(1)

ProfilesSpec == Init /\ [][ProfilesNext]_vars

----------------------------------------------------------------------------
(* Properties of the profiles handler *)

\* A PUT by an identified caller whose body is an object with a string username.
IsUsernameUpdate(event) ==
    /\ event.httpMethod = "PUT"
    /\ event.claims.sub # None
    /\ event.raw = "json"
    /\ "username" \in DOMAIN event.data
    /\ "str" \in DOMAIN event.data.username

\* C11: an update whose username has a whitespace-trimmed length below 3 or
\* above 20 is answered 400 and leaves the profiles table unchanged; one of
\* trimmed length exactly 3 or exactly 20 made of letters and digits passes
\* validation, proceeds to its put_item and is answered 200.
C11_UsernameLengthBounds ==
    [][/\ \A event \in ProfilesEvents :
            (IsUsernameUpdate(event) /\ profiles_lambda_handler(1, event)) =>
                LET trimmed == strip(event.data.username.str) IN
                /\ (Len(trimmed) < 3 \/ Len(trimmed) > 20) =>
                       /\ resp'[1].statusCode = 400
                       /\ pc'[1] = "idle"
                       /\ profiles' = profiles
                /\ (Len(trimmed) \in {3, 20} /\ isalnum(trimmed)) =>
                       pc'[1] = "update_user_profile_put"
       /\ update_user_profile_put(1) => resp'[1].statusCode = 200]_vars

\* An update with username "abc" was stored and a later one with a username
\* too short was answered 400.
C11_Witness ==
    /\ resp[1].statusCode = 400
    /\ resp[1].body.error = "Username must be at least 3 characters long"
    /\ "u1" \in DOMAIN profiles
    /\ "username" \in DOMAIN profiles["u1"]
    /\ profiles["u1"].username = Str(<<"a", "b", "c">>)

UsernameChars == Alnum \cup {"-", "_"}

\* C12: every stored profile that has a username holds a string of 3 to 20
\* characters, each a letter, a digit, a hyphen or an underscore.
C12_StoredUsernameValid ==
    \A u \in DOMAIN profiles :
        "username" \in DOMAIN profiles[u] =>
            LET name == profiles[u].username IN
            /\ "str" \in DOMAIN name
            /\ Len(name.str) \in 3..20
            /\ \A i \in 1..Len(name.str) : name.str[i] \in UsernameChars

\* C13: the put_item of an update by user U stores at key U a record whose
\* userId is U, whose email and createdAt are those of the record stored
\* before (the caller's email claim and the time of the update when there
\* was none), whose updatedAt is a time of the clock, and changes no other
\* key: the userId, email, createdAt and updatedAt of the body are not stored.
C13_IdentityFieldsProtected ==
    [][update_user_profile_put(1) =>
          LET U == loc[1].user_id IN
          /\ U \in DOMAIN profiles'
          /\ profiles'[U].userId = U
          /\ IF U \in DOMAIN profiles
             THEN /\ profiles'[U].email = profiles[U].email
                  /\ profiles'[U].createdAt = profiles[U].createdAt
             ELSE /\ profiles'[U].email = loc[1].user_email
                  /\ profiles'[U].createdAt \in 0..now
          /\ profiles'[U].updatedAt \in 0..now
          /\ \A k \in DOMAIN profiles' \ {U} : k \in DOMAIN profiles /\ profiles'[k] = profiles[k]
      ]_vars

\* A body supplying userId, email, createdAt and updatedAt was merged into
\* the stored profile of u1, which an earlier update had created.
C13_Witness ==
    /\ "u1" \in DOMAIN profiles
    /\ "bio" \in DOMAIN profiles["u1"]
    /\ profiles["u1"].bio = ForgedBody.bio
    /\ profiles["u1"].userId = "u1"
    /\ profiles["u1"].email = "e1"
    /\ profiles["u1"].createdAt < profiles["u1"].updatedAt
    /\ resp[1].statusCode = 200
    /\ acc[1] = <<"get_item", "put_item">>

\* A GET of /user/username/{target} by an identified caller.
IsUsernameLookup(event) ==
    /\ event.httpMethod = "GET"
    /\ event.claims.sub # None
    /\ Len(event.path) = 3
    /\ event.path[2] = "username"

\* C14: the public lookup of a target id is answered 200 with a body whose
\* keys are exactly userId, username and email, whose values are the target
\* id and the stored profile's username and email and nothing else of it
\* (null username and email when no profile is stored), and it leaves the
\* profiles table as it was.
C14_LookupIsPublicInfoOnly ==
    [][\A event \in ProfilesEvents :
          (IsUsernameLookup(event) /\ profiles_lambda_handler(1, event)) =>
              LET target == event.path[3]
                  stored == target \in DOMAIN profiles
              IN  /\ resp'[1].statusCode = 200
                  /\ DOMAIN resp'[1].body = {"userId", "username", "email"}
                  /\ resp'[1].body.userId = target
                  /\ resp'[1].body.username =
                         IF stored /\ "username" \in DOMAIN profiles[target]
                         THEN profiles[target].username ELSE JNull
                  /\ resp'[1].body.email = IF stored THEN profiles[target].email ELSE None
                  /\ profiles' = profiles
      ]_vars

\* The lookup of u1 was answered while u1's stored profile had a username
\* and a further attribute.
C14_Witness ==
    /\ resp[1].statusCode = 200
    /\ DOMAIN resp[1].body = {"userId", "username", "email"}
    /\ resp[1].body.userId = "u1"
    /\ resp[1].body.username # JNull
    /\ "u1" \in DOMAIN profiles
    /\ "bio" \in DOMAIN profiles["u1"]

\* A GET of /user/profile by an identified caller with no stored profile.
IsFirstProfileRead(event) ==
    /\ event.httpMethod = "GET"
    /\ event.claims.sub # None
    /\ event.path = <<"user", "profile">>
    /\ event.claims.sub \notin DOMAIN profiles

\* C15: GET /user/profile of a user with no stored profile is answered 200
\* with the default view (userId and email of the claims, username null) and
\* writes nothing: the profiles table is unchanged and still has no record
\* of the user.
C15_DefaultViewIsTransient ==
    [][\A event \in ProfilesEvents :
          (IsFirstProfileRead(event) /\ profiles_lambda_handler(1, event)) =>
              /\ resp'[1].statusCode = 200
              /\ resp'[1].body.userId = event.claims.sub
              /\ resp'[1].body.email = event.claims.email
              /\ resp'[1].body.username = JNull
              /\ profiles' = profiles
              /\ event.claims.sub \notin DOMAIN profiles'
              /\ pc'[1] = "idle"
      ]_vars

\* u2 was shown the default view and has no stored profile, while u1 has one.
C15_Witness ==
    /\ resp[1].statusCode = 200
    /\ DOMAIN resp[1].body = {"userId", "email", "username", "createdAt"}
    /\ resp[1].body.userId = "u2"
    /\ resp[1].body.username = JNull
    /\ "u2" \notin DOMAIN profiles
    /\ "u1" \in DOMAIN profiles

----------------------------------------------------------------------------
(* Properties of the leaderboard *)

\* A GET of /scores/{roundId} by an identified caller.
IsLeaderboardRead(event) ==
    /\ event.httpMethod = "GET"
    /\ event.claims.sub # None
    /\ event.roundId # None

\* C16: GET /scores/{roundId} is answered 200 with exactly the score records
\* stored for that round, each once (one per user) and none of another
\* round, in ascending order of moves, so that the first has the least moves
\* stored for the round.
C16_LeaderboardSortedByMoves ==
    [][\A event \in LeaderboardEvents :
          (IsLeaderboardRead(event) /\ scores_lambda_handler(1, event)) =>
              LET items == resp'[1].body.Items
                  keys == {k \in DOMAIN scores : k[1] = event.roundId}
              IN  /\ resp'[1].statusCode = 200
                  /\ Len(items) = Cardinality(keys)
                  /\ \A k \in keys : \E i \in 1..Len(items) : items[i] = scores[k]
                  /\ \A i \in 1..Len(items) :
                        /\ items[i].roundId = event.roundId
                        /\ <<items[i].roundId, items[i].userId>> \in keys
                  /\ \A i, j \in 1..Len(items) :
                        /\ i < j => items[i].moves <= items[j].moves
                        /\ i # j => items[i].userId # items[j].userId
                  /\ \A k \in keys : items # <<>> /\ items[1].moves <= scores[k].moves
                  /\ scores' = scores
      ]_vars

\* The leaderboard of round_1 was read with two users on it, the later
\* submitter first, while a score of round_2 was stored too.
C16_Witness ==
    /\ resp[1].statusCode = 200
    /\ acc[1] = <<"query">>
    /\ Len(resp[1].body.Items) = 2
    /\ resp[1].body.Items[1].userId = "u2"
    /\ resp[1].body.Items[1].moves < resp[1].body.Items[2].moves
    /\ resp[1].body.Items[1].completedAt > resp[1].body.Items[2].completedAt
    /\ <<"round_2", "u1">> \in DOMAIN scores

----------------------------------------------------------------------------
(* Properties of creates *)

\* C17: a configuration create whose body lacks walls or targets, and a
\* round create (on either route) whose body lacks initialRobotPositions or
\* targetPositions or that has no body, is answered 400 and writes nothing.
C17_MissingFieldIs400 ==
    [][/\ \A event \in ConfigPosts :
            (/\ event.claims.sub # None
             /\ event.raw = "json"
             /\ ~({"walls", "targets"} \subseteq DOMAIN event.data)
             /\ config_lambda_handler(1, event)) =>
                /\ resp'[1].statusCode = 400
                /\ pc'[1] = "idle"
                /\ configs' = configs
       /\ \A event \in RoundCreates :
            (/\ \/ event.raw = "null"
                \/ /\ event.raw = "json"
                   /\ ~({"initialRobotPositions", "targetPositions"} \subseteq DOMAIN event.data)
             /\ rounds_lambda_handler(1, event)) =>
                /\ resp'[1].statusCode = 400
                /\ pc'[1] = "idle"
                /\ rounds' = rounds
      ]_vars

\* A round and a configuration are stored and a create without a body was
\* answered 400.
C17_Witness ==
    /\ resp[1].statusCode = 400
    /\ resp[1].body = [error |-> "Request body is required"]
    /\ DOMAIN rounds # {}
    /\ DOMAIN configs # {}

\* C18: POST /rounds with initialRobotPositions and targetPositions but no
\* configId in the body is answered 400 and stores no round.
C18_CreateRequiresConfigId ==
    [][\A event \in RoundsEvents :
          (/\ event.httpMethod = "POST"
           /\ event.path = <<"rounds">>
           /\ event.raw = "json"
           /\ {"initialRobotPositions", "targetPositions"} \subseteq DOMAIN event.data
           /\ "configId" \notin DOMAIN event.data
           /\ rounds_lambda_handler(1, event)) =>
              /\ resp'[1].statusCode = 400
              /\ rounds' = rounds
      ]_vars

\* C19: every round in the rounds table has a configId, and it is not empty.
C19_EveryRoundHasConfigId ==
    \A id \in DOMAIN rounds :
        "configId" \in DOMAIN rounds[id] /\ rounds[id].configId # ""

----------------------------------------------------------------------------
(* Properties of the lists of rounds *)

\* The rounds a list response carries ('' for none).
ListContent(body) == IF body = EmptyBody THEN {} ELSE body.Items

C21_BothShapesAccepted ==
    [][\A event \in RoundCreates :
          (/\ event.raw = "json"
           /\ \/ DOMAIN event.data = {"puzzleStates"}
              \/ /\ {"initialRobotPositions", "targetPositions"} \subseteq DOMAIN event.data
                 /\ DOMAIN event.data \subseteq
                        {"initialRobotPositions", "targetPositions", "walls", "targets"}
           /\ rounds_lambda_handler(1, event)) =>
              /\ resp'[1].statusCode = 201
              /\ RoundIdOf(now) \in DOMAIN rounds'
              /\ rounds'[RoundIdOf(now)] = resp'[1].body
      ]_vars

----------------------------------------------------------------------------
(* Properties of the configurations handler *)

\* Invocations of the configurations handler, of every kind, that do not
\* overlap, in short runs.
ConfigOpsNext ==
    \/ Tick
    \/ \E event \in ConfigEvents :
          nreq < MaxReqs /\ config_lambda_handler(1, event)
    \/ create_configuration_put(1)
    \/ update_configuration_put(1)
    \/ delete_configuration_delete(1)

ConfigOpsSpec == Init /\ [][ConfigOpsNext]_vars

\* The records of owners other than user_id are the same in configs'.
OthersUntouched(user_id) ==
    \A k \in DOMAIN configs \cup DOMAIN configs' :
        k[1] # user_id => k \in DOMAIN configs /\ k \in DOMAIN configs' /\ configs'[k] = configs[k]

\* C22: an operation invoked by caller A returns only records stored under
\* A and changes or removes only records stored under A; a get, update or
\* delete of a configId that A has no record of (though another owner may)
\* is answered 404.
C22_ConfigsScopedToCaller ==
    [][/\ \A event \in ConfigEvents :
            (event.claims.sub # None /\ config_lambda_handler(1, event)) =>
                LET A == event.claims.sub
                    id == event.configId
                    returned == pc'[1] = "idle" /\ resp'[1].statusCode = 200
                IN  /\ configs' = configs
                    /\ pc'[1] # "idle" => loc'[1].userId = A
                    /\ (returned /\ event.httpMethod = "GET" /\ id = None) =>
                           \A e \in resp'[1].body.Items :
                               /\ <<A, e.configId>> \in DOMAIN configs
                               /\ e.view = ConfigView(configs[<<A, e.configId>>])
                    /\ (returned /\ event.httpMethod = "GET" /\ id # None) =>
                           /\ <<A, id>> \in DOMAIN configs
                           /\ resp'[1].body = ConfigView(configs[<<A, id>>])
                    /\ (/\ id # None
                        /\ event.httpMethod \in {"GET", "PUT", "DELETE"}
                        /\ <<A, id>> \notin DOMAIN configs) =>
                           resp'[1].statusCode = 404 /\ pc'[1] = "idle"
       /\ (\/ create_configuration_put(1)
           \/ update_configuration_put(1)
           \/ delete_configuration_delete(1)) => OthersUntouched(loc[1].userId)
      ]_vars

\* u1 and u2 each store a configuration "1", and the list of u1 was
\* answered with u1's alone.
C22_Witness ==
    /\ resp[1].statusCode = 200
    /\ acc[1] = <<"query">>
    /\ {<<"u1", "1">>, <<"u2", "1">>} \subseteq DOMAIN configs
    /\ configs[<<"u1", "1">>].walls # configs[<<"u2", "1">>].walls
    /\ resp[1].body.Items = {[configId |-> "1", view |-> ConfigView(configs[<<"u1", "1">>])]}

IsConfigUpdate(event) ==
    /\ event.httpMethod = "PUT"
    /\ event.claims.sub # None
    /\ event.configId # None
    /\ event.raw = "json"

\* C23: an update of a configuration the caller owns replaces its walls and
\* targets by those of the body and leaves its createdAt as it was stored,
\* update after update; an update of a configId the caller does not own is
\* answered 404 and writes nothing, whether or not the body carries walls
\* and targets.
C23_UpdateKeepsCreatedAt ==
    [][/\ \A event \in ConfigEvents :
            (IsConfigUpdate(event) /\ config_lambda_handler(1, event)) =>
                LET key == <<event.claims.sub, event.configId>>
                IN  /\ configs' = configs
                    /\ key \notin DOMAIN configs =>
                           /\ resp'[1].statusCode = 404
                           /\ pc'[1] = "idle"
                           /\ acc'[1] = <<"get_item">>
                    /\ (/\ key \in DOMAIN configs
                        /\ {"walls", "targets"} \subseteq DOMAIN event.data) =>
                           /\ pc'[1] = "update_configuration_put"
                           /\ <<loc'[1].userId, loc'[1].configId>> = key
                           /\ loc'[1].walls = event.data.walls
                           /\ loc'[1].targets = event.data.targets
       /\ update_configuration_put(1) =>
            LET key == <<loc[1].userId, loc[1].configId>>
            IN  /\ key \in DOMAIN configs
                /\ DOMAIN configs' = DOMAIN configs
                /\ \A k \in DOMAIN configs \ {key} : configs'[k] = configs[k]
                /\ configs'[key].walls = loc[1].walls
                /\ configs'[key].targets = loc[1].targets
                /\ configs'[key].createdAt = configs[key].createdAt
                /\ resp'[1].statusCode = 200
      ]_vars

\* An update answered 200 at a later time than the creation: the new walls
\* are stored and createdAt is the time of the creation.
C23_Witness ==
    /\ resp[1].statusCode = 200
    /\ acc[1] = <<"get_item", "put_item">>
    /\ <<"u1", "1">> \in DOMAIN configs
    /\ configs[<<"u1", "1">>].walls = "w3"
    /\ configs[<<"u1", "1">>].createdAt < configs[<<"u1", "1">>].updatedAt

----------------------------------------------------------------------------
(* Scores and profiles over the life of a round *)

\* A round is created and deleted by its author, scores are submitted for
\* the id it has, and profiles are written and read.
LifecycleRoundsEvents ==
    {RoundsEvent("POST", <<"rounds">>, "u1", "e1", "json", LegacyRound)}
    \cup {RoundsEvent("DELETE", <<"rounds", RoundIdOf(1)>>, c[1], c[2], "null", Nil) :
            c \in {<<"u1", "e1">>, <<"u2", "e2">>}}

LifecycleScoresEvents ==
    {ScoresEvent("POST", u, None, RoundIdOf(1), "json", [moves |-> m, moveSequence |-> "seqA"]) :
        u \in Users, m \in 0..MaxMoves}
    \cup {ScoresEvent("GET", "u1", "e1", r, "json", Nil) : r \in {RoundIdOf(1), None}}

LifecycleProfilesEvents ==
    {ProfilesEvent("PUT", <<"user", "profile">>, c[1], c[2], "json", d) :
        c \in {<<"u1", "e1">>, <<"u2", "e2">>},
        d \in {[username |-> Str(<<"a", "b", "c">>)], [username |-> JNull, bio |-> Str(<<"b">>)]}}
    \cup {ProfilesEvent("GET", path, "u1", "e1", "json", Nil) :
            path \in {<<"user", "profile">>, <<"user", "username", "u2">>}}

LifecycleNext ==
    \/ Tick
    \/ \E event \in LifecycleRoundsEvents :
          nreq < MaxReqs /\ rounds_lambda_handler(1, event)
    \/ \E event \in LifecycleScoresEvents :
          nreq < MaxReqs /\ scores_lambda_handler(1, event)
    \/ \E event \in LifecycleProfilesEvents :
          nreq < MaxReqs /\ profiles_lambda_handler(1, event)
    \/ handle_delete_round_delete(1)
    \/ submit_score_put(1)
    \/ update_user_profile_put(1)

LifecycleSpec == Init /\ [][LifecycleNext]_vars

\* C24: no step removes a score or a profile: a score stored for
\* (roundId, userId) is stored after every step, with that roundId and
\* userId, also when the step deletes the round; a stored profile stays
\* stored.
C24_ScoresAndProfilesStay ==
    [][/\ \A k \in DOMAIN scores :
            /\ k \in DOMAIN scores'
            /\ scores'[k].roundId = k[1]
            /\ scores'[k].userId = k[2]
       /\ \A u \in DOMAIN profiles :
            u \in DOMAIN profiles' /\ profiles'[u].userId = u
      ]_vars

\* The round was created and deleted, and the score submitted for it is
\* still stored.
C24_Witness ==
    /\ Len(roundLog) > 0
    /\ rounds = <<>>
    /\ resp[1].statusCode = 200
    /\ acc[1] = <<"get_item", "delete_item">>
    /\ \E k \in DOMAIN scores : k[1] = RoundIdOf(1)

----------------------------------------------------------------------------
(* Further properties of the scores handler *)

\* C25: a submission by an identified caller whose moves are negative is
\* answered 400 and writes nothing, and no stored score has moves below 0.
C25_NegativeMovesRejected ==
    [][/\ \A event \in ScoresEvents :
            (/\ event.httpMethod = "POST"
             /\ event.claims.sub # None
             /\ event.raw = "json"
             /\ "moves" \in DOMAIN event.data
             /\ event.data.moves < 0
             /\ scores_lambda_handler(1, event)) =>
                 /\ resp'[1].statusCode = 400
                 /\ pc'[1] = "idle"
                 /\ scores' = scores
       /\ \A k \in DOMAIN scores' : scores'[k].moves >= 0
      ]_vars

----------------------------------------------------------------------------
(* Further properties of the profiles handler *)

\* C26: an update whose trimmed username has 3 to 20 characters, each a
\* letter, a digit, a hyphen or an underscore, is accepted and answered 200,
\* also when it is made of hyphens and underscores only; an update whose
\* trimmed username contains any other character is answered 400.
C26_UsernameCharset ==
    [][/\ \A event \in ProfilesEvents :
            (IsUsernameUpdate(event) /\ profiles_lambda_handler(1, event)) =>
                LET trimmed == strip(event.data.username.str) IN
                /\ (/\ Len(trimmed) >= MinUsernameLen
                    /\ Len(trimmed) <= MaxUsernameLen
                    /\ \A i \in 1..Len(trimmed) : trimmed[i] \in UsernameChars) =>
                       pc'[1] = "update_user_profile_put"
                /\ (\E i \in 1..Len(trimmed) : trimmed[i] \notin UsernameChars) =>
                       /\ resp'[1].statusCode = 400
                       /\ pc'[1] = "idle"
       /\ update_user_profile_put(1) => resp'[1].statusCode = 200
      ]_vars

----------------------------------------------------------------------------
(* The four handlers together *)

\* Invocations of the four handlers, of every kind, that do not overlap.
AppNext ==
    \/ Tick
    \/ \E event \in ScoresEvents :
          nreq < MaxAppReqs /\ scores_lambda_handler(1, event)
    \/ \E event \in RoundsEvents :
          nreq < MaxAppReqs /\ rounds_lambda_handler(1, event)
    \/ \E event \in ConfigEvents :
          nreq < MaxAppReqs /\ config_lambda_handler(1, event)
    \/ \E event \in ProfilesEvents :
          nreq < MaxAppReqs /\ profiles_lambda_handler(1, event)
    \/ submit_score_put(1)
    \/ handle_delete_round_delete(1)
    \/ create_configuration_put(1)
    \/ update_configuration_put(1)
    \/ delete_configuration_delete(1)
    \/ update_user_profile_put(1)

AppSpec == Init /\ [][AppNext]_vars

\* The store calls that write.
Writes == {"put_item", "delete_item"}

\* The four tables.
Tables == <<configs, rounds, scores, profiles>>

\* The step ends the invocation in slot p.
Returns(p) == pc'[p] = "idle" /\ (pc[p] # "idle" \/ nreq' # nreq)

\* C27: a request answered with a status of 400 or more leaves the four
\* tables as they were and has made no write; an operation makes at most
\* one write, and the write is its last store call: a step that changes a
\* table is the one that ends the invocation, with a status below 400.
C27_ErrorsWriteNothing ==
    [][/\ (Returns(1) /\ resp'[1].statusCode >= 400) =>
            /\ Tables' = Tables
            /\ \A i \in 1..Len(acc'[1]) : acc'[1][i] \notin Writes
       /\ Returns(1) =>
            \A i \in 1..Len(acc'[1]) : acc'[1][i] \in Writes => i = Len(acc'[1])
       /\ Tables' # Tables =>
            /\ Returns(1)
            /\ resp'[1].statusCode \in 200..399
            /\ Len(acc'[1]) > 0
            /\ acc'[1][Len(acc'[1])] \in Writes
      ]_vars

\* The last of the requests was answered with an error after a store call,
\* while a table holds what an earlier request wrote.
C27_Witness ==
    /\ resp[1].statusCode >= 400
    /\ Len(acc[1]) > 0
    /\ nreq = MaxAppReqs
    /\ configs # <<>> \/ rounds # <<>> \/ scores # <<>> \/ profiles # <<>>

----------------------------------------------------------------------------
(* Overlapping updates and deletes of a configuration *)

\* Creates, updates and deletes of u1's configuration "1".
ConfigRaceEvents ==
    {ConfigEvent("POST", None, "u1", "json", [walls |-> "w1", targets |-> "t"]),
     ConfigEvent("PUT", "1", "u1", "json", [walls |-> "w3", targets |-> "t"]),
     ConfigEvent("DELETE", "1", "u1", "null", Nil)}

\* Invocations of the configurations handler by one owner, overlapping freely.
ConfigRaceNext ==
    \/ Tick
    \/ \E p \in Procs, event \in ConfigRaceEvents :
          nreq < MaxReqs /\ config_lambda_handler(p, event)
    \/ \E p \in Procs : create_configuration_put(p)
    \/ \E p \in Procs : update_configuration_put(p)
    \/ \E p \in Procs : delete_configuration_delete(p)

ConfigRaceSpec == Init /\ [][ConfigRaceNext]_vars

\* C28: a configuration that is not stored, such as one whose delete was
\* answered 200, comes into existence only by a create of its owner that is
\* assigned its id: the put of an update adds no record, also when a delete
\* of the same key overlaps the update.
C28_DeletedStaysAbsent ==
    [][/\ \A p \in Procs : update_configuration_put(p) => DOMAIN configs' = DOMAIN configs
       /\ \A k \in DOMAIN configs' \ DOMAIN configs :
            \E p \in Procs :
                /\ pc[p] = "create_configuration_put"
                /\ pc'[p] = "idle"
                /\ k = <<loc[p].userId, loc[p].configId>>
      ]_vars

----------------------------------------------------------------------------
(* The ids of one owner's configurations over time *)

\* Creates by u1 and deletes by u1 of the ids they get.
ConfigIdsEvents ==
    {ConfigEvent("POST", None, "u1", "json", [walls |-> "w1", targets |-> "t"])}
    \cup {ConfigEvent("DELETE", ToString(n), "u1", "null", Nil) : n \in 1..3}

\* Invocations by one owner that do not overlap: one slot.
ConfigIdsNext ==
    \/ \E event \in ConfigIdsEvents :
          nreq < MaxIdReqs /\ config_lambda_handler(1, event)
    \/ create_configuration_put(1)
    \/ delete_configuration_delete(1)

ConfigIdsSpec == Init /\ [][ConfigIdsNext]_vars

\* The create of user_id that is completing is the first create since a
\* delete, answered 200, of the id that was then the highest of user_id.
FollowsDeleteOfHighest(user_id) ==
    /\ lastDelete.userId = user_id
    /\ lastDelete.highest
    /\ lastDelete.creates = Len(cfgLog)

\* C29 as stated: the id a create assigns is above every numeric id stored
\* for the owner, and the create that follows the delete of the owner's
\* highest id is assigned that same id again.
C29_DeletedHighestIdReturned ==
    [][create_configuration_put(1) =>
          LET user_id == loc[1].userId
              assigned == resp'[1].body.configId
          IN  /\ \A n \in StoredNumbers(user_id) : IntOf(assigned) > n
              /\ FollowsDeleteOfHighest(user_id) => assigned = lastDelete.configId
      ]_vars

\* C29, amended: the id a create assigns is above every numeric id stored
\* for the owner; the create that follows the delete of the owner's highest
\* id h is assigned the highest id still stored plus one (1 when none is):
\* h again exactly when h - 1 is still stored, or h is 1 and none is stored,
\* and a lower id otherwise.
C29_DeletedHighestIdReturnedIfNoGap ==
    [][create_configuration_put(1) =>
          LET user_id == loc[1].userId
              assigned == IntOf(resp'[1].body.configId)
              stored == StoredNumbers(user_id)
          IN  /\ \A n \in stored : assigned > n
              /\ FollowsDeleteOfHighest(user_id) =>
                    LET h == IntOf(lastDelete.configId)
                    IN  /\ assigned <= h
                        /\ assigned = h <=> (h - 1 \in stored \/ (stored = {} /\ h = 1))
      ]_vars

\* "2" was assigned, deleted while it was the highest id, and assigned again
\* by the next create.
C29_Witness ==
    /\ lastDelete.highest
    /\ lastDelete.configId = "2"
    /\ Len(cfgLog) = lastDelete.creates + 1
    /\ cfgLog[Len(cfgLog)].configId = "2"
    /\ \E i \in 1..lastDelete.creates : cfgLog[i].configId = "2"
    /\ <<"u1", "2">> \in DOMAIN configs
    /\ pc[1] = "idle"

----------------------------------------------------------------------------
(* Overlapping updates of a profile *)

\* Updates by u1: one sets username, the other sets displayName.
ProfileRaceEvents ==
    {ProfilesEvent("PUT", <<"user", "profile">>, "u1", "e1", "json", d) :
        d \in {[username |-> Str(<<"a", "b", "c">>)], [displayName |-> Str(<<"d">>)]}}

\* Invocations of the profiles handler by one user, overlapping freely.
ProfileRaceNext ==
    \/ Tick
    \/ \E p \in Procs, event \in ProfileRaceEvents :
          nreq < MaxReqs /\ profiles_lambda_handler(p, event)
    \/ \E p \in Procs : update_user_profile_put(p)

ProfileRaceSpec == Init /\ [][ProfileRaceNext]_vars

\* The last update of slot p was answered 200 and set field.
UpdatedField(p, field) ==
    /\ pc[p] = "idle"
    /\ resp[p].statusCode = 200
    /\ acc[p] = <<"get_item", "put_item">>
    /\ field \in DOMAIN resp[p].body

\* C30: once an update that sets username and an update by the same user
\* that sets displayName have both been answered 200, the stored profile
\* holds both fields, however their reads and writes were interleaved.
C30_BothFieldsStored ==
    (\E p, q \in Procs : UpdatedField(p, "username") /\ UpdatedField(q, "displayName")) =>
        /\ "u1" \in DOMAIN profiles
        /\ {"username", "displayName"} \subseteq DOMAIN profiles["u1"]

====
